---- MODULE Spec2Model ----
(***************************************************************************)
(* A model of the parallel graph operations of src/src/graph_ops.rs:       *)
(* greedy degree partitioning, parallel per-node traversal (with and       *)
(* without a partition), and relabeling of an undirected graph by          *)
(* descending degree.                                                      *)
(***************************************************************************)
EXTENDS Integers, Sequences, FiniteSets, TLC

VARIABLES
    graph,              \* the graph the operation is called on (or NoGraph)
    pc,                 \* position of the calling thread
    op,                 \* the call in progress and its arguments
    partitions,         \* Vec<Range<Node>> returned by a partition operation
    node_values,        \* the caller's node-value buffer
    invocations,        \* log of node_fn invocations, in the order they ran
    cursor,             \* per task: number of node_fn invocations it has made
    result,             \* Result<(), Error> of a traversal, "none" before it returns
    degree_node_pairs,  \* relabel: the sorted (degree, node) pairs
    degrees,            \* relabel: degree of each new node id
    nodes,              \* relabel: new node id of each old node id
    offsets,            \* relabel: prefix sum of degrees
    targets,            \* relabel: the relabeled adjacency buffer
    nodes_writers,      \* per index of `nodes`, the phase-2 tasks that wrote it
    targets_writers,    \* per index of `targets`, the phase-4 tasks that wrote it
    relabeled           \* relabel: the graph built from (offsets, targets)

relabel_vars == <<degree_node_pairs, degrees, nodes, offsets, targets,
                  nodes_writers, targets_writers, relabeled>>

vars == <<graph, pc, op, partitions, node_values, invocations, cursor, result,
          degree_node_pairs, degrees, nodes, offsets, targets,
          nodes_writers, targets_writers, relabeled>>

\* ------------------------------------------------------------------ bounds

MaxNodes == 3
MaxEdges == 3
MaxConcurrency == 3
MaxCost == 2
MaxBatchSize == 3
MaxParts == 2
MaxRelabelEdges == 2

\* ------------------------------------------------------------- sequences

RECURSIVE SumSeq(_)
SumSeq(s) == IF s = <<>> THEN 0 ELSE Head(s) + SumSeq(Tail(s))

SeqsUpTo(S, k) == UNION { [1..m -> S] : m \in 0..k }

Range(lo, hi) == [start |-> lo, end |-> hi]

\* ------------------------------------------------------ graph abstraction

NoGraph == [n |-> 0, edges |-> <<>>]

\* Graphs built from an edge list over the node ids 0..n-1.
Graphs ==
    { [n |-> n, edges |-> es] :
        n \in 1..MaxNodes,
        es \in SeqsUpTo((0..(MaxNodes - 1)) \X (0..(MaxNodes - 1)), MaxEdges) }

WellFormedGraph(g) ==
    \A i \in 1..Len(g.edges) : g.edges[i][1] < g.n /\ g.edges[i][2] < g.n

node_count(g) == g.n

edge_count(g) == Len(g.edges)

RECURSIVE Adjacency(_, _)
\* Adjacency list of v: each edge (s, t) contributes t to s and s to t.
Adjacency(es, v) ==
    IF es = <<>> THEN <<>>
    ELSE LET e == Head(es)
             here == (IF e[1] = v THEN <<e[2]>> ELSE <<>>)
                     \o (IF e[2] = v THEN <<e[1]>> ELSE <<>>)
         IN here \o Adjacency(Tail(es), v)

neighbors(g, v) == Adjacency(g.edges, v)

degree(g, v) == Len(neighbors(g, v))

out_degree(g, v) == Cardinality({ i \in 1..Len(g.edges) : g.edges[i][1] = v })

in_degree(g, v) == Cardinality({ i \in 1..Len(g.edges) : g.edges[i][2] = v })

\* ------------------------------------------------------- partition engine

\* (x as f64 / c as f64).ceil() as usize
CeilDiv(x, c) == (x + c - 1) \div c

ClosesRangeNoTerminal(len, max_batches, partition_size, batch_size, node, upper_bound) ==
    len < max_batches - 1 /\ partition_size >= batch_size

ClosesRangeOffByOne(len, max_batches, partition_size, batch_size, node, upper_bound) ==
    \/ (len < max_batches /\ partition_size >= batch_size)
    \/ node = upper_bound

ClosesRangeStrict(len, max_batches, partition_size, batch_size, node, upper_bound) ==
    \/ (len < max_batches - 1 /\ partition_size > batch_size)
    \/ node = upper_bound

\* The condition under which the loop closes the current range.
ClosesRange(len, max_batches, partition_size, batch_size, node, upper_bound) ==
    \/ (len < max_batches - 1 /\ partition_size >= batch_size)
    \/ node = upper_bound

RECURSIVE GreedyLoop(_, _, _, _, _, _, _, _)
\* One iteration of `for node in Node::zero()..node_count`, then the rest.
GreedyLoop(node_map, node_count_, batch_size, max_batches, node, parts, partition_size, partition_start) ==
    IF node >= node_count_ THEN parts
    ELSE LET size == partition_size + node_map[node]
             upper_bound == node_count_ - 1
         IN IF ClosesRange(Len(parts), max_batches, size, batch_size, node, upper_bound)
            THEN GreedyLoop(node_map, node_count_, batch_size, max_batches,
                            node + 1, Append(parts, Range(partition_start, node + 1)),
                            0, node + 1)
            ELSE GreedyLoop(node_map, node_count_, batch_size, max_batches,
                            node + 1, parts, size, partition_start)

greedy_node_map_partition(node_map, node_count_, batch_size, max_batches) ==
    GreedyLoop(node_map, node_count_, batch_size, max_batches, 0, <<>>, 0, 0)

DegreeBatchSizeHalved(g, concurrency) == CeilDiv(edge_count(g), concurrency)

DegreeBatchSize(g, concurrency) == CeilDiv(edge_count(g) * 2, concurrency)

DirectedBatchSizeDoubled(g, concurrency) == CeilDiv(edge_count(g) * 2, concurrency)

DirectedBatchSize(g, concurrency) == CeilDiv(edge_count(g), concurrency)

degree_partition(g, concurrency) ==
    greedy_node_map_partition([v \in 0..(node_count(g) - 1) |-> degree(g, v)],
                              node_count(g), DegreeBatchSize(g, concurrency), concurrency)

out_degree_partition(g, concurrency) ==
    greedy_node_map_partition([v \in 0..(node_count(g) - 1) |-> out_degree(g, v)],
                              node_count(g), DirectedBatchSize(g, concurrency), concurrency)

in_degree_partition(g, concurrency) ==
    greedy_node_map_partition([v \in 0..(node_count(g) - 1) |-> in_degree(g, v)],
                              node_count(g), DirectedBatchSize(g, concurrency), concurrency)

\* --------------------------------------------- partition: state machine

NoCall == [name |-> "none"]

NoCsr == [offsets |-> <<>>, targets |-> <<>>]

InitPartition ==
    /\ graph \in { g \in Graphs : WellFormedGraph(g) } \cup {NoGraph}
    /\ pc = "idle"
    /\ op = NoCall
    /\ partitions = <<>>
    /\ node_values = <<>>
    /\ invocations = <<>>
    /\ cursor = <<>>
    /\ result = "none"
    /\ degree_node_pairs = <<>>
    /\ degrees = <<>>
    /\ nodes = <<>>
    /\ offsets = <<>>
    /\ targets = <<>>
    /\ nodes_writers = <<>>
    /\ targets_writers = <<>>
    /\ relabeled = NoCsr

DegreePartition(c) ==
    /\ pc = "idle" /\ graph # NoGraph
    /\ partitions' = degree_partition(graph, c)
    /\ op' = [name |-> "degree_partition", concurrency |-> c,
              node_map |-> [v \in 0..(node_count(graph) - 1) |-> degree(graph, v)],
              node_count |-> node_count(graph),
              batch_size |-> DegreeBatchSize(graph, c), max_batches |-> c]
    /\ pc' = "done"
    /\ UNCHANGED relabel_vars
    /\ UNCHANGED <<graph, node_values, invocations, cursor, result>>

OutDegreePartition(c) ==
    /\ pc = "idle" /\ graph # NoGraph
    /\ partitions' = out_degree_partition(graph, c)
    /\ op' = [name |-> "out_degree_partition", concurrency |-> c,
              node_map |-> [v \in 0..(node_count(graph) - 1) |-> out_degree(graph, v)],
              node_count |-> node_count(graph),
              batch_size |-> DirectedBatchSize(graph, c), max_batches |-> c]
    /\ pc' = "done"
    /\ UNCHANGED relabel_vars
    /\ UNCHANGED <<graph, node_values, invocations, cursor, result>>

InDegreePartition(c) ==
    /\ pc = "idle" /\ graph # NoGraph
    /\ partitions' = in_degree_partition(graph, c)
    /\ op' = [name |-> "in_degree_partition", concurrency |-> c,
              node_map |-> [v \in 0..(node_count(graph) - 1) |-> in_degree(graph, v)],
              node_count |-> node_count(graph),
              batch_size |-> DirectedBatchSize(graph, c), max_batches |-> c]
    /\ pc' = "done"
    /\ UNCHANGED relabel_vars
    /\ UNCHANGED <<graph, node_values, invocations, cursor, result>>

\* A direct call with an arbitrary cost function, as the unit tests make it.
GreedyNodeMapPartition(node_map, n, batch_size, max_batches) ==
    /\ pc = "idle" /\ graph = NoGraph
    /\ partitions' = greedy_node_map_partition(node_map, n, batch_size, max_batches)
    /\ op' = [name |-> "greedy_node_map_partition", concurrency |-> max_batches,
              node_map |-> node_map, node_count |-> n,
              batch_size |-> batch_size, max_batches |-> max_batches]
    /\ pc' = "done"
    /\ UNCHANGED relabel_vars
    /\ UNCHANGED <<graph, node_values, invocations, cursor, result>>

NextPartition ==
    \/ \E c \in 1..MaxConcurrency : DegreePartition(c)
    \/ \E c \in 1..MaxConcurrency : OutDegreePartition(c)
    \/ \E c \in 1..MaxConcurrency : InDegreePartition(c)
    \/ /\ pc = "idle" /\ graph = NoGraph
       /\ \E n \in 1..(MaxNodes + 1) :
            \E node_map \in [0..(n - 1) -> 0..MaxCost] :
              \E batch_size \in 1..MaxBatchSize :
                \E max_batches \in 1..MaxConcurrency :
                  GreedyNodeMapPartition(node_map, n, batch_size, max_batches)

SpecPartition == InitPartition /\ [][NextPartition]_vars

\* ------------------------------------------------- partition: properties

PartitionReturned == pc = "done" /\ op.name \in
    {"degree_partition", "out_degree_partition", "in_degree_partition",
     "greedy_node_map_partition"}

Contiguous(parts, n) ==
    /\ Len(parts) >= 1
    /\ parts[1].start = 0
    /\ \A i \in 1..(Len(parts) - 1) : parts[i].end = parts[i + 1].start
    /\ parts[Len(parts)].end = n
    /\ \A i \in 1..Len(parts) : parts[i].start < parts[i].end

\* C1: the ranges returned by degree_partition, out_degree_partition and
\* in_degree_partition (all via greedy_node_map_partition) start at 0, each
\* range ends where the next starts, and the last ends at node_count, so
\* they cover [0, n) without overlap.
C1_Contiguous ==
    PartitionReturned => Contiguous(partitions, op.node_count)

C1_Witness ==
    /\ pc = "done" /\ op.name = "degree_partition"
    /\ Len(partitions) = 3
    /\ Contiguous(partitions, node_count(graph))

\* C2: the number of returned ranges never exceeds the concurrency argument
\* (max_batches), for every cost function, n >= 1, batch_size >= 1.
C2_AtMostMaxBatches ==
    PartitionReturned => Len(partitions) <= op.max_batches

\* The cap is what limits the result: a further node reached batch_size
\* after max_batches - 1 ranges had been emitted.
C2_Witness ==
    /\ pc = "done" /\ op.name = "greedy_node_map_partition"
    /\ Len(partitions) = op.max_batches
    /\ op.max_batches = 2
    /\ LET last == partitions[2]
       IN /\ last.end - last.start >= 2
          /\ op.node_map[last.start] >= op.batch_size

RangeCost(node_map, r) ==
    SumSeq([i \in 1..(r.end - r.start) |-> node_map[r.start + i - 1]])

\* C3: every range of degree_partition(G, c) other than the last one has
\* total degree at least ceil(2|E|/c).
C3_BatchSizeReached ==
    (pc = "done" /\ op.name = "degree_partition") =>
        \A i \in 1..(Len(partitions) - 1) :
            RangeCost([v \in 0..(node_count(graph) - 1) |-> degree(graph, v)],
                      partitions[i])
              >= CeilDiv(2 * edge_count(graph), op.concurrency)

\* A non-last range that met the threshold and a last range that did not.
C3_Witness ==
    /\ pc = "done" /\ op.name = "degree_partition"
    /\ Len(partitions) >= 2
    /\ edge_count(graph) >= 2
    /\ RangeCost(op.node_map, partitions[Len(partitions)])
         < CeilDiv(2 * edge_count(graph), op.concurrency)
    /\ RangeCost(op.node_map, partitions[1])
         >= CeilDiv(2 * edge_count(graph), op.concurrency)

\* ------------------------------------------------------- slice splitter

Min(a, b) == IF a <= b THEN a ELSE b

RangeWidths(partition) == [i \in 1..Len(partition) |-> partition[i].end - partition[i].start]

RECURSIVE SplitLoop(_, _, _, _, _)
\* The loop of split_by_partition over the remaining ranges: `consumed` is the
\* number of elements already split off the slice, so the remainder holds
\* len - consumed elements.  A sub-slice is a half-open interval of element
\* positions of the original slice.  `range.end - current_start` below zero
\* panics (overflow check), or wraps to a value split_at_mut rejects.
SplitLoop(partition, len, consumed, current_start, splits) ==
    IF partition = <<>> THEN [panicked |-> FALSE, splits |-> splits]
    ELSE LET range == Head(partition)
             next_end == range.end - current_start
         IN IF range.end < current_start \/ next_end > len - consumed
            THEN [panicked |-> TRUE, splits |-> splits]
            ELSE SplitLoop(Tail(partition), len, consumed + next_end,
                           current_start + next_end,
                           Append(splits, [lo |-> consumed, hi |-> consumed + next_end]))

split_by_partition(partition, len) == SplitLoop(partition, len, 0, 0, <<>>)

\* ------------------------------------------------ parallel node iterator

\* The closure passed by the caller: it reads the graph, its node and its own
\* state, and stores a new state.
NodeFn(g, node, node_state) == node_state + out_degree(g, node) + node + 1

InvalidNodeValuesLonger(buffer, g) == Len(buffer) > node_count(g)

\* node_values.len() != self.node_count().index()
InvalidNodeValues(buffer, g) == Len(buffer) # node_count(g)

InvalidPartitioningLarger(partition, g) == SumSeq(RangeWidths(partition)) > node_count(g)

\* partition.iter().map(|r| r.end - r.start).sum::<Node>() != self.node_count()
InvalidPartitioning(partition, g) == SumSeq(RangeWidths(partition)) # node_count(g)

\* A task makes `count` invocations in sequence; its k-th (from 0) is
\* node_fn(self, first_node + k, slice[first_slot + k]).
Task(first_node, first_slot, count) ==
    [first_node |-> first_node, first_slot |-> first_slot, count |-> count]

EnumerateTasksFromOne(buffer) == [i \in 1..Len(buffer) |-> Task(i, i - 1, 1)]

\* node_values.into_par_iter().enumerate(): one task per buffer element.
EnumerateTasks(buffer) == [i \in 1..Len(buffer) |-> Task(i - 1, i - 1, 1)]

RangeTasksLocalNode(partition, splits) ==
    [i \in 1..Len(partition) |->
        Task(0, splits[i].lo,
             Min(splits[i].hi - splits[i].lo, partition[i].end - partition[i].start))]

\* splits.zip(partition): one task per range, mutable_chunk.iter_mut() zipped
\* with range.start..range.end.
RangeTasks(partition, splits) ==
    [i \in 1..Len(partition) |->
        Task(partition[i].start, splits[i].lo,
             Min(splits[i].hi - splits[i].lo, partition[i].end - partition[i].start))]

\* --------------------------------------------- traversal: state machine

\* A zeroed buffer, or one holding distinct values.
Buffers ==
    UNION { { [i \in 1..len |-> 0], [i \in 1..len |-> i] } : len \in 0..(MaxNodes + 1) }

NodeRanges == { Range(lo, hi) : lo \in 0..MaxNodes, hi \in 0..MaxNodes }

\* Partitions a caller may pass: any ranges with start <= end.
Partitions == SeqsUpTo({ r \in NodeRanges : r.start <= r.end }, MaxParts)

InitTraversal ==
    /\ graph \in { g \in Graphs : WellFormedGraph(g) /\ Len(g.edges) <= 1 }
    /\ pc = "idle"
    /\ op = NoCall
    /\ partitions = <<>>
    /\ node_values = <<>>
    /\ invocations = <<>>
    /\ cursor = <<>>
    /\ result = "none"
    /\ degree_node_pairs = <<>>
    /\ degrees = <<>>
    /\ nodes = <<>>
    /\ offsets = <<>>
    /\ targets = <<>>
    /\ nodes_writers = <<>>
    /\ targets_writers = <<>>
    /\ relabeled = NoCsr

ForEachNode(buffer) ==
    /\ pc = "idle"
    /\ node_values' = buffer
    /\ invocations' = <<>>
    /\ IF InvalidNodeValues(buffer, graph)
       THEN /\ op' = [name |-> "for_each_node", initial |-> buffer,
                      partition |-> <<>>, tasks |-> <<>>]
            /\ cursor' = <<>>
            /\ result' = "InvalidNodeValues"
            /\ pc' = "done"
       ELSE /\ op' = [name |-> "for_each_node", initial |-> buffer,
                      partition |-> <<>>, tasks |-> EnumerateTasks(buffer)]
            /\ cursor' = [i \in 1..Len(buffer) |-> 0]
            /\ result' = "none"
            /\ pc' = "running"
    /\ UNCHANGED relabel_vars
    /\ UNCHANGED <<graph, partitions>>

ForEachNodeByPartition(partition, buffer) ==
    /\ pc = "idle"
    /\ node_values' = buffer
    /\ invocations' = <<>>
    /\ LET split == split_by_partition(partition, Len(buffer))
           call(tasks) == [name |-> "for_each_node_by_partition", initial |-> buffer,
                           partition |-> partition, tasks |-> tasks,
                           splits |-> IF tasks = <<>> THEN <<>> ELSE split.splits]
       IN IF InvalidNodeValues(buffer, graph)
          THEN /\ op' = call(<<>>)
               /\ cursor' = <<>>
               /\ result' = "InvalidNodeValues"
               /\ pc' = "done"
          ELSE IF InvalidPartitioning(partition, graph)
          THEN /\ op' = call(<<>>)
               /\ cursor' = <<>>
               /\ result' = "InvalidPartitioning"
               /\ pc' = "done"
          ELSE IF split.panicked
          THEN /\ op' = call(<<>>)
               /\ cursor' = <<>>
               /\ result' = "panic"
               /\ pc' = "done"
          ELSE /\ op' = call(RangeTasks(partition, split.splits))
               /\ cursor' = [i \in 1..Len(partition) |-> 0]
               /\ result' = "none"
               /\ pc' = "running"
    /\ UNCHANGED relabel_vars
    /\ UNCHANGED <<graph, partitions>>

InvokeDescending(i) ==
    LET task == op.tasks[i]
        node == task.first_node + (task.count - 1 - cursor[i])
        slot == task.first_slot + (task.count - 1 - cursor[i])
    IN /\ cursor[i] < task.count
       /\ node_values' = [node_values EXCEPT ![slot + 1] = NodeFn(graph, node, @)]
       /\ invocations' = Append(invocations, [node |-> node, slot |-> slot, task |-> i])
       /\ cursor' = [cursor EXCEPT ![i] = @ + 1]

\* The next invocation of task i: node_fn(self, node, node_state).
Invoke(i) ==
    LET task == op.tasks[i]
        node == task.first_node + cursor[i]
        slot == task.first_slot + cursor[i]
    IN /\ cursor[i] < task.count
       /\ node_values' = [node_values EXCEPT ![slot + 1] = NodeFn(graph, node, @)]
       /\ invocations' = Append(invocations, [node |-> node, slot |-> slot, task |-> i])
       /\ cursor' = [cursor EXCEPT ![i] = @ + 1]

\* A per-node task of for_each_node runs on some worker.
NodeTask(i) ==
    /\ pc = "running" /\ op.name = "for_each_node"
    /\ Invoke(i)
    /\ UNCHANGED relabel_vars
    /\ UNCHANGED <<graph, pc, op, partitions, result>>

\* A per-range task of for_each_node_by_partition advances by one node.
RangeTaskStep(i) ==
    /\ pc = "running" /\ op.name = "for_each_node_by_partition"
    /\ Invoke(i)
    /\ UNCHANGED relabel_vars
    /\ UNCHANGED <<graph, pc, op, partitions, result>>

\* The fork-join completes and the traversal returns Ok(()).
Join ==
    /\ pc = "running"
    /\ \A i \in 1..Len(op.tasks) : cursor[i] = op.tasks[i].count
    /\ result' = "Ok"
    /\ pc' = "done"
    /\ UNCHANGED relabel_vars
    /\ UNCHANGED <<graph, op, partitions, node_values, invocations, cursor>>

NextTraversal ==
    \/ /\ pc = "idle"
       /\ \E buffer \in Buffers : ForEachNode(buffer)
    \/ /\ pc = "idle"
       /\ \E buffer \in Buffers : \E partition \in Partitions :
            ForEachNodeByPartition(partition, buffer)
    \/ /\ pc = "running"
       /\ \E i \in 1..Len(op.tasks) : NodeTask(i)
    \/ /\ pc = "running"
       /\ \E i \in 1..Len(op.tasks) : RangeTaskStep(i)
    \/ Join

SpecTraversal == InitTraversal /\ [][NextTraversal]_vars

\* ------------------------------------------------- traversal: properties

InvocationsOf(v) == { k \in 1..Len(invocations) : invocations[k].node = v }

\* node_fn has run exactly once for node v, with the state node_values[v].
VisitedOnceWithOwnState(v) ==
    /\ Cardinality(InvocationsOf(v)) = 1
    /\ \A k \in InvocationsOf(v) : invocations[k].slot = v

AllVisitedOnce ==
    \A v \in 0..(node_count(graph) - 1) : VisitedOnceWithOwnState(v)

\* C4: for_each_node invokes f exactly once for each node v in [0, n) with
\* state V[v], under every schedule of the per-node tasks (no node is ever
\* invoked twice while the traversal runs); after it returns Ok, V[v] is the
\* value f stores when invoked once with (G, v, initial V[v]).
C4_ForEachNodeOnce ==
    (op.name = "for_each_node") =>
        /\ \A v \in 0..(node_count(graph) - 1) : Cardinality(InvocationsOf(v)) <= 1
        /\ \A k \in 1..Len(invocations) :
             invocations[k].node < node_count(graph)
             /\ invocations[k].slot = invocations[k].node
        /\ (result = "Ok") =>
             /\ AllVisitedOnce
             /\ Len(node_values) = node_count(graph)
             /\ \A v \in 0..(node_count(graph) - 1) :
                  node_values[v + 1] = NodeFn(graph, v, op.initial[v + 1])

\* for_each_node returned Ok on three nodes whose tasks ran in descending order.
C4_Witness ==
    /\ op.name = "for_each_node" /\ result = "Ok"
    /\ node_count(graph) = 3
    /\ Len(invocations) = 3
    /\ invocations[1].node = 2 /\ invocations[2].node = 1 /\ invocations[3].node = 0
    /\ op.initial[3] = 3

\* C5 (as claimed): whenever for_each_node_by_partition returns Ok, node_fn
\* has been called for every node exactly once, with the state node_values[n].
C5_ByPartitionOnce ==
    (op.name = "for_each_node_by_partition" /\ result = "Ok") => AllVisitedOnce

\* C6: for_each_node and for_each_node_by_partition return
\* Err(InvalidNodeValues) whenever len(buffer) != node_count, without ever
\* invoking the closure or changing a buffer element.
C6_InvalidNodeValues ==
    (op.name \in {"for_each_node", "for_each_node_by_partition"}
        /\ Len(op.initial) # node_count(graph)) =>
        /\ pc = "done"
        /\ result = "InvalidNodeValues"
        /\ invocations = <<>>
        /\ node_values = op.initial

\* A buffer that is too short is rejected although the partition's widths
\* sum to node_count.
C6_Witness ==
    /\ op.name = "for_each_node_by_partition"
    /\ result = "InvalidNodeValues"
    /\ Len(op.initial) = node_count(graph) - 1
    /\ SumSeq(RangeWidths(op.partition)) = node_count(graph)
    /\ Len(op.partition) = 2

\* C7: for_each_node_by_partition with a buffer of length node_count and a
\* partition (each range with start <= end) whose widths do not sum to
\* node_count returns Err(InvalidPartitioning), without ever invoking the
\* closure or changing a buffer element.
C7_InvalidPartitioning ==
    (op.name = "for_each_node_by_partition"
        /\ Len(op.initial) = node_count(graph)
        /\ SumSeq(RangeWidths(op.partition)) # node_count(graph)) =>
        /\ pc = "done"
        /\ result = "InvalidPartitioning"
        /\ invocations = <<>>
        /\ node_values = op.initial

\* A contiguous partition whose widths sum to node_count - 1 is rejected.
C7_Witness ==
    /\ op.name = "for_each_node_by_partition"
    /\ result = "InvalidPartitioning"
    /\ node_count(graph) = 3
    /\ op.partition = <<Range(0, 1), Range(1, 2)>>
    /\ Len(op.initial) = 3

\* ------------------------------------------------------ relabel by degree

\* A slot of a preallocated buffer that has not been written yet.
Uninit == -1

PairGreaterTiesAscending(left, right) ==
    left[1] > right[1] \/ (left[1] = right[1] /\ left[2] < right[2])

PairLess(left, right) ==
    left[1] < right[1] \/ (left[1] = right[1] /\ left[2] < right[2])

\* left.cmp(right).reverse() == Ordering::Less on (degree, node) tuples.
PairGreater(left, right) ==
    left[1] > right[1] \/ (left[1] = right[1] /\ left[2] > right[2])

RECURSIVE InsertPair(_, _)
InsertPair(x, s) ==
    IF s = <<>> THEN <<x>>
    ELSE IF PairGreater(x, Head(s)) THEN <<x>> \o s
    ELSE <<Head(s)>> \o InsertPair(x, Tail(s))

RECURSIVE SortPairs(_)
\* par_sort_unstable_by with the reversed comparison.
SortPairs(s) == IF s = <<>> THEN <<>> ELSE InsertPair(Head(s), SortPairs(Tail(s)))

sort_by_degree_desc(g) ==
    SortPairs([i \in 1..node_count(g) |-> <<degree(g, i - 1), i - 1>>])

RECURSIVE InsertNode(_, _)
InsertNode(x, s) ==
    IF s = <<>> THEN <<x>>
    ELSE IF x <= Head(s) THEN <<x>> \o s
    ELSE <<Head(s)>> \o InsertNode(x, Tail(s))

RECURSIVE SortNodes(_)
\* <[Node]>::sort_unstable
SortNodes(s) == IF s = <<>> THEN <<>> ELSE InsertNode(Head(s), SortNodes(Tail(s)))

RECURSIVE PrefixSumFrom(_, _)
PrefixSumFrom(acc, ds) ==
    IF ds = <<>> THEN <<acc>> ELSE <<acc>> \o PrefixSumFrom(acc + Head(ds), Tail(ds))

\* Exclusive prefix sum with a trailing total: n + 1 offsets.
prefix_sum(ds) == PrefixSumFrom(0, ds)

RelabeledTargetUnmapped(id_map, v) == v

\* let new_v = nodes[v.index()]
RelabeledTarget(id_map, v) == id_map[v + 1]

\* The sub-slice [lo, hi) of a buffer replaced by its ascending sort.
SortSlice(buffer, lo, hi) ==
    LET sorted == SortNodes([k \in 1..(hi - lo) |-> buffer[lo + k]])
    IN [k \in 1..Len(buffer) |->
          IF k > lo /\ k <= hi THEN sorted[k - lo] ELSE buffer[k]]

\* Read accessors of the graph built from (offsets, targets).
CsrNodeCount(csr) == Len(csr.offsets) - 1

CsrEdgeCount(csr) == Len(csr.targets) \div 2

CsrDegree(csr, u) == csr.offsets[u + 2] - csr.offsets[u + 1]

CsrNeighbors(csr, u) ==
    [k \in 1..CsrDegree(csr, u) |-> csr.targets[csr.offsets[u + 1] + k]]

\* ------------------------------------------------ relabel: state machine

InitRelabel ==
    /\ graph \in { g \in Graphs : WellFormedGraph(g)
                     /\ Len(g.edges) <= MaxRelabelEdges
                     /\ \A i \in 1..Len(g.edges) : g.edges[i][1] <= g.edges[i][2] }
    /\ pc = "idle"
    /\ op = NoCall
    /\ partitions = <<>>
    /\ node_values = <<>>
    /\ invocations = <<>>
    /\ cursor = <<>>
    /\ result = "none"
    /\ degree_node_pairs = <<>>
    /\ degrees = <<>>
    /\ nodes = <<>>
    /\ offsets = <<>>
    /\ targets = <<>>
    /\ nodes_writers = <<>>
    /\ targets_writers = <<>>
    /\ relabeled = NoCsr

\* Phase 1, and the allocation of `degrees` and `nodes` for phase 2.
SortByDegreeDesc ==
    /\ pc = "idle"
    /\ op' = [op EXCEPT !.name = "to_degree_ordered"]
    /\ degree_node_pairs' = sort_by_degree_desc(graph)
    /\ degrees' = [i \in 1..node_count(graph) |-> Uninit]
    /\ nodes' = [i \in 1..node_count(graph) |-> Uninit]
    /\ nodes_writers' = [i \in 1..node_count(graph) |-> {}]
    /\ cursor' = [i \in 1..node_count(graph) |-> 0]
    /\ pc' = "unzip"
    /\ UNCHANGED <<graph, partitions, node_values, invocations, result,
                   offsets, targets, targets_writers, relabeled>>

UnzipTaskByDegree(n) ==
    /\ pc = "unzip"
    /\ cursor[n + 1] = 0
    /\ LET degree_ == degree_node_pairs[n + 1][1]
           node == degree_node_pairs[n + 1][2]
       IN /\ nodes' = [nodes EXCEPT ![degree_ + 1] = n]
          /\ nodes_writers' = [nodes_writers EXCEPT ![degree_ + 1] = @ \cup {n}]
          /\ degrees' = [degrees EXCEPT ![n + 1] = degree_]
    /\ cursor' = [cursor EXCEPT ![n + 1] = 1]
    /\ UNCHANGED <<graph, pc, op, partitions, node_values, invocations, result,
                   degree_node_pairs, offsets, targets, targets_writers, relabeled>>

\* Phase 2, the task of position n: nodes[node] = n, degrees[n] = degree.
UnzipTask(n) ==
    /\ pc = "unzip"
    /\ cursor[n + 1] = 0
    /\ LET degree_ == degree_node_pairs[n + 1][1]
           node == degree_node_pairs[n + 1][2]
       IN /\ nodes' = [nodes EXCEPT ![node + 1] = n]
          /\ nodes_writers' = [nodes_writers EXCEPT ![node + 1] = @ \cup {n}]
          /\ degrees' = [degrees EXCEPT ![n + 1] = degree_]
    /\ cursor' = [cursor EXCEPT ![n + 1] = 1]
    /\ UNCHANGED <<graph, pc, op, partitions, node_values, invocations, result,
                   degree_node_pairs, offsets, targets, targets_writers, relabeled>>

\* Phase 2 joins; phase 3 computes the offsets; the targets buffer is
\* allocated and the per-node tasks of phase 4 are forked.
PrefixSum ==
    /\ pc = "unzip"
    /\ \A i \in 1..Len(cursor) : cursor[i] = 1
    /\ offsets' = prefix_sum(degrees)
    /\ targets' = [k \in 1..prefix_sum(degrees)[node_count(graph) + 1] |-> Uninit]
    /\ targets_writers' = [k \in 1..prefix_sum(degrees)[node_count(graph) + 1] |-> {}]
    /\ cursor' = [i \in 1..node_count(graph) |-> 0]
    /\ pc' = "relabel"
    /\ UNCHANGED <<graph, op, partitions, node_values, invocations, result,
                   degree_node_pairs, degrees, nodes, nodes_writers, relabeled>>

RelabelWriteAtOldId(u) ==
    /\ pc = "relabel"
    /\ cursor[u + 1] < degree(graph, u)
    /\ LET new_u == u
           start_offset == offsets[new_u + 1]
           end_offset == start_offset + cursor[u + 1]
           v == neighbors(graph, u)[cursor[u + 1] + 1]
       IN /\ targets' = [targets EXCEPT ![end_offset + 1] = RelabeledTarget(nodes, v)]
          /\ targets_writers' = [targets_writers EXCEPT ![end_offset + 1] = @ \cup {u}]
    /\ cursor' = [cursor EXCEPT ![u + 1] = @ + 1]
    /\ UNCHANGED <<graph, pc, op, partitions, node_values, invocations, result,
                   degree_node_pairs, degrees, nodes, offsets, nodes_writers, relabeled>>

\* Phase 4, task of old id u: the write of its next neighbor's new id.
RelabelWrite(u) ==
    /\ pc = "relabel"
    /\ cursor[u + 1] < degree(graph, u)
    /\ LET new_u == nodes[u + 1]
           start_offset == offsets[new_u + 1]
           end_offset == start_offset + cursor[u + 1]
           v == neighbors(graph, u)[cursor[u + 1] + 1]
       IN /\ targets' = [targets EXCEPT ![end_offset + 1] = RelabeledTarget(nodes, v)]
          /\ targets_writers' = [targets_writers EXCEPT ![end_offset + 1] = @ \cup {u}]
    /\ cursor' = [cursor EXCEPT ![u + 1] = @ + 1]
    /\ UNCHANGED <<graph, pc, op, partitions, node_values, invocations, result,
                   degree_node_pairs, degrees, nodes, offsets, nodes_writers, relabeled>>

\* Phase 4, task of old id u: the sort of targets[start_offset..end_offset].
RelabelSort(u) ==
    /\ pc = "relabel"
    /\ cursor[u + 1] = degree(graph, u)
    /\ LET new_u == nodes[u + 1]
           start_offset == offsets[new_u + 1]
           end_offset == start_offset + degree(graph, u)
       IN /\ targets' = SortSlice(targets, start_offset, end_offset)
          /\ targets_writers' =
                [k \in 1..Len(targets_writers) |->
                    IF k > start_offset /\ k <= end_offset
                    THEN targets_writers[k] \cup {u} ELSE targets_writers[k]]
    /\ cursor' = [cursor EXCEPT ![u + 1] = @ + 1]
    /\ UNCHANGED <<graph, pc, op, partitions, node_values, invocations, result,
                   degree_node_pairs, degrees, nodes, offsets, nodes_writers, relabeled>>

\* Phase 4 joins and phase 5 builds the graph from (offsets, targets).
Assemble ==
    /\ pc = "relabel"
    /\ \A u \in 0..(node_count(graph) - 1) : cursor[u + 1] = degree(graph, u) + 1
    /\ relabeled' = [offsets |-> offsets, targets |-> targets]
    /\ pc' = "done"
    /\ UNCHANGED <<graph, op, partitions, node_values, invocations, cursor, result,
                   degree_node_pairs, degrees, nodes, offsets, targets,
                   nodes_writers, targets_writers>>

NextRelabel ==
    \/ SortByDegreeDesc
    \/ /\ pc = "unzip"
       /\ \E n \in 0..(node_count(graph) - 1) : UnzipTask(n)
    \/ PrefixSum
    \/ /\ pc = "relabel"
       /\ \E u \in 0..(node_count(graph) - 1) : RelabelWrite(u)
    \/ /\ pc = "relabel"
       /\ \E u \in 0..(node_count(graph) - 1) : RelabelSort(u)
    \/ Assemble

SpecRelabel == InitRelabel /\ [][NextRelabel]_vars

\* -------------------------------------------------- relabel: properties

Relabeled == pc = "done" /\ op.name = "to_degree_ordered"

Occurrences(s, x) == Cardinality({ k \in 1..Len(s) : s[k] = x })

IsAscending(s) == \A k \in 1..(Len(s) - 1) : s[k] <= s[k + 1]

NodeIds == 0..(node_count(graph) - 1)

\* C8: with G' = to_degree_ordered(G) and id_map the old-to-new mapping, for
\* every node v: G'.degree(id_map[v]) = G.degree(v), G'.neighbors(id_map[v])
\* is ascending and holds id_map[w] exactly as often as G.neighbors(v) holds
\* w, so every edge {u, v} appears as {id_map[u], id_map[v]} with the same
\* multiplicity.
C8_AdjacencyPreserved ==
    Relabeled =>
        \A v \in NodeIds :
            /\ CsrDegree(relabeled, nodes[v + 1]) = degree(graph, v)
            /\ IsAscending(CsrNeighbors(relabeled, nodes[v + 1]))
            /\ \A w \in NodeIds :
                 Occurrences(CsrNeighbors(relabeled, nodes[v + 1]), nodes[w + 1])
                   = Occurrences(neighbors(graph, v), w)

\* A multigraph: a parallel edge between two nodes that both change id, which
\* the relabeled graph holds twice between their new ids.
C8_Witness ==
    /\ Relabeled
    /\ \E u \in NodeIds : \E w \in NodeIds :
         /\ u # w /\ Occurrences(neighbors(graph, u), w) = 2
         /\ nodes[u + 1] # u /\ nodes[w + 1] # w
         /\ Occurrences(CsrNeighbors(relabeled, nodes[u + 1]), nodes[w + 1]) = 2

\* A node whose relabeled adjacency list is not in the source order.
C8_SortWitness ==
    /\ Relabeled
    /\ \E v \in NodeIds :
         CsrNeighbors(relabeled, nodes[v + 1])
           # [k \in 1..degree(graph, v) |-> nodes[neighbors(graph, v)[k] + 1]]

\* C9: to_degree_ordered(G) has the node_count and edge_count of G, and its
\* degrees in id order are the degrees of G sorted in descending order.
C9_DegreesDescending ==
    Relabeled =>
        /\ CsrNodeCount(relabeled) = node_count(graph)
        /\ CsrEdgeCount(relabeled) = edge_count(graph)
        /\ \A i \in NodeIds : \A j \in NodeIds :
             i < j => CsrDegree(relabeled, i) >= CsrDegree(relabeled, j)
        /\ \A d \in 0..(2 * edge_count(graph)) :
             Cardinality({ i \in NodeIds : CsrDegree(relabeled, i) = d })
               = Cardinality({ v \in NodeIds : degree(graph, v) = d })

\* A graph whose degrees are strictly ascending in the old ids.
C9_Witness ==
    /\ Relabeled
    /\ node_count(graph) = 3
    /\ degree(graph, 0) < degree(graph, 1) /\ degree(graph, 1) < degree(graph, 2)
    /\ CsrDegree(relabeled, 0) = degree(graph, 2)

IdMapComplete == pc \in {"relabel", "done"} /\ op.name = "to_degree_ordered"

\* C10: new ids follow the descending lexicographic order of (degree, old
\* id): for a # b, id_map[a] < id_map[b] iff degree(a) > degree(b), or
\* degree(a) = degree(b) and a > b.
C10_TieBreak ==
    IdMapComplete =>
        \A a \in NodeIds : \A b \in NodeIds :
            a # b =>
                ((nodes[a + 1] < nodes[b + 1])
                   <=> (\/ degree(graph, a) > degree(graph, b)
                        \/ (degree(graph, a) = degree(graph, b) /\ a > b)))

\* Two nodes of equal positive degree: the larger old id got the smaller new id.
C10_Witness ==
    /\ IdMapComplete
    /\ \E a \in NodeIds : \E b \in NodeIds :
         /\ a < b
         /\ degree(graph, a) = degree(graph, b) /\ degree(graph, a) > 0
         /\ nodes[b + 1] < nodes[a + 1]

\* ------------------------------------------------- relabel, applied twice

RECURSIVE Repeat(_, _)
Repeat(x, k) == IF k = 0 THEN <<>> ELSE <<x>> \o Repeat(x, k - 1)

RECURSIVE CsrEdgesFrom(_, _)
\* The edges of the graph built from (offsets, targets), from node u on: each
\* self-loop of u (two entries of its list) once, then each edge to a larger id.
CsrEdgesFrom(csr, u) ==
    IF u >= CsrNodeCount(csr) THEN <<>>
    ELSE LET list == CsrNeighbors(csr, u)
             loops == Cardinality({ k \in 1..Len(list) : list[k] = u }) \div 2
             larger == SelectSeq(list, LAMBDA v : v > u)
         IN Repeat(<<u, u>>, loops)
            \o [k \in 1..Len(larger) |-> <<u, larger[k]>>]
            \o CsrEdgesFrom(csr, u + 1)

\* G::from(Csr::new(offsets, targets)), as a graph the operations can be called on.
GraphFromCsr(csr) == [n |-> CsrNodeCount(csr), edges |-> CsrEdgesFrom(csr, 0)]

PairLeq(left, right) ==
    left[1] < right[1] \/ (left[1] = right[1] /\ left[2] <= right[2])

\* Undirected multigraphs, one edge list per multiset of edges.
InitRelabelTwice ==
    /\ graph \in { g \in Graphs : WellFormedGraph(g)
                     /\ (\A i \in 1..Len(g.edges) : g.edges[i][1] <= g.edges[i][2])
                     /\ (\A j \in 1..(Len(g.edges) - 1) :
                          PairLeq(g.edges[j], g.edges[j + 1])) }
    /\ pc = "idle"
    /\ op = NoCall
    /\ partitions = <<>>
    /\ node_values = <<>>
    /\ invocations = <<>>
    /\ cursor = <<>>
    /\ result = "none"
    /\ degree_node_pairs = <<>>
    /\ degrees = <<>>
    /\ nodes = <<>>
    /\ offsets = <<>>
    /\ targets = <<>>
    /\ nodes_writers = <<>>
    /\ targets_writers = <<>>
    /\ relabeled = NoCsr

\* The caller passes the relabeled graph to to_degree_ordered again.
RelabelAgain ==
    /\ pc = "done"
    /\ op = [name |-> "to_degree_ordered"]
    /\ graph' = GraphFromCsr(relabeled)
    /\ op' = [name |-> "none", first |-> relabeled]
    /\ pc' = "idle"
    /\ cursor' = <<>>
    /\ degree_node_pairs' = <<>>
    /\ degrees' = <<>>
    /\ nodes' = <<>>
    /\ offsets' = <<>>
    /\ targets' = <<>>
    /\ nodes_writers' = <<>>
    /\ targets_writers' = <<>>
    /\ relabeled' = NoCsr
    /\ UNCHANGED <<partitions, node_values, invocations, result>>

NextRelabelTwice ==
    \/ NextRelabel
    \/ RelabelAgain

SpecRelabelTwice == InitRelabelTwice /\ [][NextRelabelTwice]_vars

RelabeledTwice ==
    pc = "done" /\ op.name = "to_degree_ordered" /\ "first" \in DOMAIN op

\* C11 (as claimed): every node id has the same degree and the same neighbor
\* list in to_degree_ordered(to_degree_ordered(G)) and in to_degree_ordered(G).
C11_Idempotent ==
    RelabeledTwice =>
        \A v \in NodeIds :
            /\ CsrDegree(relabeled, v) = CsrDegree(op.first, v)
            /\ CsrNeighbors(relabeled, v) = CsrNeighbors(op.first, v)

\* The id that mirrors v within the block of ids that have v's degree.
TieReversed(csr, v) ==
    LET block == { u \in 0..(CsrNodeCount(csr) - 1) : CsrDegree(csr, u) = CsrDegree(csr, v) }
        lo == CHOOSE a \in block : \A w \in block : a <= w
        hi == CHOOSE b \in block : \A w \in block : b >= w
    IN lo + hi - v

\* C11 (amended): the second pass reads the first pass's result; every node id
\* keeps its degree; the second id map reverses the ids within each block of
\* equal degree, and the neighbor lists of the second result are the sorted
\* images of the first result's lists under that map; the two results are
\* identical when no two nodes have the same degree.
C11_IdempotentUpToTies ==
    RelabeledTwice =>
        /\ \A v \in NodeIds :
             /\ neighbors(graph, v) = CsrNeighbors(op.first, v)
             /\ CsrDegree(relabeled, v) = CsrDegree(op.first, v)
             /\ nodes[v + 1] = TieReversed(op.first, v)
             /\ IsAscending(CsrNeighbors(relabeled, nodes[v + 1]))
             /\ \A w \in NodeIds :
                  Occurrences(CsrNeighbors(relabeled, nodes[v + 1]), nodes[w + 1])
                    = Occurrences(CsrNeighbors(op.first, v), w)
        /\ (\A v \in NodeIds : \A w \in NodeIds :
              v # w => CsrDegree(op.first, v) # CsrDegree(op.first, w))
             => relabeled = op.first

\* A second pass over a result with two nodes of equal degree, which swaps them.
C11_Witness ==
    /\ RelabeledTwice
    /\ \E v \in NodeIds : nodes[v + 1] # v
    /\ relabeled # op.first

\* ------------------------------------- traversal by partition: properties

\* The partition invariants: starts at 0, each range ends where the next
\* starts, the last ends at n.
WellFormedPartition(partition, n) ==
    /\ Len(partition) >= 1
    /\ partition[1].start = 0
    /\ \A i \in 1..(Len(partition) - 1) : partition[i].end = partition[i + 1].start
    /\ partition[Len(partition)].end = n
    /\ \A i \in 1..Len(partition) : partition[i].start <= partition[i].end

ByWellFormedPartition ==
    /\ op.name = "for_each_node_by_partition"
    /\ Len(op.initial) = node_count(graph)
    /\ WellFormedPartition(op.partition, node_count(graph))

EarlierOfTask(k) ==
    { j \in 1..(k - 1) : invocations[j].task = invocations[k].task }

\* C12: with a well-formed partition, every invocation for a node of range i
\* is made by the task of range i, and that task's invocations run through
\* the range in strictly ascending node id order, one node at a time, while
\* the tasks of different ranges interleave freely.
C12_AscendingWithinRange ==
    ByWellFormedPartition =>
        /\ \A k \in 1..Len(invocations) :
             LET range == op.partition[invocations[k].task]
             IN /\ invocations[k].node = range.start + Cardinality(EarlierOfTask(k))
                /\ invocations[k].node < range.end
        /\ \A k \in 1..Len(invocations) : \A l \in 1..Len(invocations) :
             (k < l /\ invocations[k].task = invocations[l].task)
                => invocations[k].node < invocations[l].node

\* The task of range [0, 2) is interrupted by the task of range [2, 3).
C12_Witness ==
    /\ ByWellFormedPartition
    /\ op.partition = <<Range(0, 2), Range(2, 3)>>
    /\ Len(invocations) = 3
    /\ invocations[1].node = 0 /\ invocations[2].node = 2 /\ invocations[3].node = 1

\* C13 (as claimed): when the widths sum to len(buffer), split_by_partition
\* returns |partition| disjoint sub-buffers, the i-th of length
\* R_i.end - R_i.start, which concatenated in order give back the buffer.
C13_SplitMatchesRanges ==
    (op.name = "for_each_node_by_partition"
        /\ Len(op.initial) = node_count(graph)
        /\ SumSeq(RangeWidths(op.partition)) = Len(op.initial)) =>
        /\ result # "panic"
        /\ Len(op.splits) = Len(op.partition)
        /\ \A i \in 1..Len(op.splits) :
             /\ op.splits[i].hi - op.splits[i].lo
                  = op.partition[i].end - op.partition[i].start
             /\ op.splits[i].lo = (IF i = 1 THEN 0 ELSE op.splits[i - 1].hi)
        /\ (Len(op.splits) >= 1 => op.splits[Len(op.splits)].hi = Len(op.initial))

\* The buffer for_each_node leaves behind: node_fn applied once per node.
ForEachNodeResult(g, buffer) ==
    [i \in 1..Len(buffer) |-> NodeFn(g, i - 1, buffer[i])]

\* C18: for every well-formed partition and buffer of length node_count, the
\* buffer after for_each_node_by_partition returns is the same under every
\* interleaving of the range tasks, and is the buffer for_each_node returns
\* with on the same initial buffer.
C18_PartitionIsHint ==
    /\ (ByWellFormedPartition /\ result = "Ok")
          => node_values = ForEachNodeResult(graph, op.initial)
    /\ (op.name = "for_each_node" /\ result = "Ok")
          => node_values = ForEachNodeResult(graph, op.initial)

\* Two ranges whose tasks interleaved, on a buffer of distinct values.
C18_Witness ==
    /\ ByWellFormedPartition /\ result = "Ok"
    /\ op.partition = <<Range(0, 1), Range(1, 3)>>
    /\ invocations[1].node = 1 /\ invocations[2].node = 0 /\ invocations[3].node = 2
    /\ op.initial = <<1, 2, 3>>
    /\ node_values # op.initial

\* ------------------------------------- partition: batch sizes and shape

\* The least q with q * c >= x.
Ceiling(x, c) == CHOOSE q \in 0..x : q * c >= x /\ (q = 0 \/ (q - 1) * c < x)

DegreeOf(g) == [v \in 0..(node_count(g) - 1) |-> degree(g, v)]

OutDegreeOf(g) == [v \in 0..(node_count(g) - 1) |-> out_degree(g, v)]

InDegreeOf(g) == [v \in 0..(node_count(g) - 1) |-> in_degree(g, v)]

\* C14: degree_partition(c) is the greedy partition with cost degree(v),
\* batch size ceil(2|E|/c) and max_batches c; out_degree_partition(c) and
\* in_degree_partition(c) are the greedy partition with cost out_degree(v)
\* resp. in_degree(v), batch size ceil(|E|/c) and max_batches c.
C14_FacadeParameters ==
    /\ (pc = "done" /\ op.name = "degree_partition") =>
          /\ op.batch_size = Ceiling(2 * edge_count(graph), op.concurrency)
          /\ partitions = greedy_node_map_partition(DegreeOf(graph), node_count(graph),
                Ceiling(2 * edge_count(graph), op.concurrency), op.concurrency)
    /\ (pc = "done" /\ op.name = "out_degree_partition") =>
          /\ op.batch_size = Ceiling(edge_count(graph), op.concurrency)
          /\ partitions = greedy_node_map_partition(OutDegreeOf(graph), node_count(graph),
                Ceiling(edge_count(graph), op.concurrency), op.concurrency)
    /\ (pc = "done" /\ op.name = "in_degree_partition") =>
          /\ op.batch_size = Ceiling(edge_count(graph), op.concurrency)
          /\ partitions = greedy_node_map_partition(InDegreeOf(graph), node_count(graph),
                Ceiling(edge_count(graph), op.concurrency), op.concurrency)

\* An out_degree_partition that a batch size of ceil(2|E|/c) would change.
C14_Witness ==
    /\ pc = "done" /\ op.name = "out_degree_partition"
    /\ Len(partitions) >= 2
    /\ partitions # greedy_node_map_partition(OutDegreeOf(graph), node_count(graph),
            Ceiling(2 * edge_count(graph), op.concurrency), op.concurrency)

\* The cost of the nodes start .. end - 1.
CostBetween(start, end) == RangeCost(op.node_map, Range(start, end))

\* Range i was closed by the threshold at its last node and not before:
\* fewer than max_batches - 1 ranges were emitted, the range reaches
\* batch_size, and no non-empty proper prefix of it does.
ClosedAtThreshold(i) ==
    /\ i - 1 < op.max_batches - 1
    /\ CostBetween(partitions[i].start, partitions[i].end) >= op.batch_size
    /\ \A e \in (partitions[i].start + 1)..(partitions[i].end - 1) :
          CostBetween(partitions[i].start, e) < op.batch_size

\* The last range takes all remaining nodes: either max_batches - 1 ranges
\* were emitted before it, or the threshold was not reached before node n - 1.
FinalRange(i) ==
    /\ partitions[i].end = op.node_count
    /\ \/ i - 1 = op.max_batches - 1
       \/ /\ i - 1 < op.max_batches - 1
          /\ \A e \in (partitions[i].start + 1)..(op.node_count - 1) :
                CostBetween(partitions[i].start, e) < op.batch_size

StreamingPartition ==
    /\ Contiguous(partitions, op.node_count)
    /\ \A i \in 1..(Len(partitions) - 1) : ClosedAtThreshold(i)
    /\ FinalRange(Len(partitions))

\* C17 (as claimed): the result is the streaming partition, and in every
\* range closed by the threshold the costs of all but the last node sum to
\* less than batch_size.
C17_Streaming ==
    PartitionReturned =>
        /\ StreamingPartition
        /\ \A i \in 1..(Len(partitions) - 1) :
              CostBetween(partitions[i].start, partitions[i].end - 1) < op.batch_size

\* C17 (amended): the result is the streaming partition; in every range
\* closed by the threshold the costs of all but the last node sum to less
\* than batch_size whenever batch_size is at least 1 (with batch_size = 0
\* every such range is a single node and the sum, 0, is not below 0).
C17_StreamingPositiveBatch ==
    PartitionReturned =>
        /\ StreamingPartition
        /\ \A i \in 1..(Len(partitions) - 1) :
              IF op.batch_size >= 1
              THEN CostBetween(partitions[i].start, partitions[i].end - 1) < op.batch_size
              ELSE partitions[i].end = partitions[i].start + 1

\* A range of two nodes closed by the threshold, then a final range that
\* passes the threshold before its end.
C17_Witness ==
    /\ PartitionReturned
    /\ op.batch_size >= 1
    /\ Len(partitions) = op.max_batches
    /\ Len(partitions) = 2
    /\ partitions[1].end = 2
    /\ \E e \in (partitions[2].start + 1)..(op.node_count - 1) :
          CostBetween(partitions[2].start, e) >= op.batch_size

\* ------------------------------------------ relabel: writes of the tasks

\* The indices of `targets` (from 1) that belong to the task of old id u:
\* [offsets[id_map[u]], offsets[id_map[u]] + degree(u)).
SubRange(u) ==
    { k \in 1..Len(targets) :
        /\ k > offsets[nodes[u + 1] + 1]
        /\ k <= offsets[nodes[u + 1] + 1] + degree(graph, u) }

\* C15: in relabel_targets, under every interleaving, no index of targets is
\* written by two tasks: the task of old id u writes and sorts only inside
\* [offsets[id_map[u]], offsets[id_map[u]] + degree(u)), these sub-ranges
\* are pairwise disjoint and cover [0, offsets[n]), the buffer is allocated
\* with exactly offsets[n] slots, and when the tasks have joined every slot
\* has been written.
C15_TargetsWritersDisjoint ==
    IdMapComplete =>
        /\ Len(targets) = offsets[node_count(graph) + 1]
        /\ \A k \in 1..Len(targets_writers) :
              /\ Cardinality(targets_writers[k]) <= 1
              /\ \A u \in targets_writers[k] : k \in SubRange(u)
        /\ \A u \in NodeIds : \A w \in NodeIds :
              u # w => SubRange(u) \cap SubRange(w) = {}
        /\ UNION { SubRange(u) : u \in NodeIds } = 1..offsets[node_count(graph) + 1]
        /\ pc = "done" =>
              /\ Len(relabeled.targets) = offsets[node_count(graph) + 1]
              /\ \A k \in 1..offsets[node_count(graph) + 1] :
                    targets_writers[k] # {} /\ relabeled.targets[k] # Uninit

\* Two tasks in the middle of their writes at the same time, the one with
\* the larger old id owning the sub-range in front.
C15_Witness ==
    /\ pc = "relabel"
    /\ \E u \in NodeIds : \E w \in NodeIds :
         /\ u < w
         /\ cursor[u + 1] >= 1 /\ cursor[u + 1] < degree(graph, u)
         /\ cursor[w + 1] >= 1 /\ cursor[w + 1] < degree(graph, w)
         /\ offsets[nodes[w + 1] + 1] < offsets[nodes[u + 1] + 1]

UnzipJoined ==
    /\ op.name = "to_degree_ordered"
    /\ \/ pc \in {"relabel", "done"}
       \/ pc = "unzip" /\ \A i \in 1..Len(cursor) : cursor[i] = 1

\* C16: in unzip_degrees_and_nodes, run on the pairs sorted by
\* sort_by_degree_desc, no index of id_map is written by two tasks under any
\* interleaving; after the join every index has been written by exactly one
\* task, id_map is a permutation of [0, n), id_map[old] is the position of
\* (degree(old), old) in the sorted pairs, and new_degrees[i] is the degree
\* of the pair at position i.
C16_UnzipWritesOnce ==
    /\ (pc = "unzip" /\ op.name = "to_degree_ordered") =>
          /\ degree_node_pairs = sort_by_degree_desc(graph)
          /\ \A i \in 1..Len(nodes_writers) : Cardinality(nodes_writers[i]) <= 1
    /\ UnzipJoined =>
          /\ \A i \in 1..Len(nodes_writers) : Cardinality(nodes_writers[i]) = 1
          /\ Len(nodes) = node_count(graph)
          /\ { nodes[i] : i \in 1..Len(nodes) } = NodeIds
          /\ \A old \in NodeIds :
                degree_node_pairs[nodes[old + 1] + 1] = <<degree(graph, old), old>>
          /\ \A i \in 1..Len(degrees) : degrees[i] = degree_node_pairs[i][1]

\* Three tasks joined, whose id_map moves every node.
C16_Witness ==
    /\ pc = "unzip" /\ UnzipJoined
    /\ node_count(graph) = 3
    /\ \A old \in NodeIds : nodes[old + 1] # old

====
